---- MODULE Spec2Model ----
(***************************************************************************)
(* Model of the bulk scene-generation pipeline of VisionBulk AI:           *)
(*   App.tsx (src/unnamed/part_001)  processBulk and the React state       *)
(*   geminiService.ts                analyzeScript, generateImage          *)
(*   types.ts (src/unnamed/part_000) ScenePrompt, AnalysisResult           *)
(*                                                                         *)
(* processBulk is an async function: it runs to completion between its     *)
(* awaits, and React applies the state updates it queued, in order, when   *)
(* it yields.  One action of the model is therefore one such segment, and  *)
(* every state of the model is a point where the run is suspended (or no   *)
(* run is in flight) and the user can act.                                 *)
(*                                                                         *)
(* Strings the code inspects (names, the data URL, the input text) are     *)
(* sequences of one-character strings; strings it only passes on are TLA+  *)
(* strings.  An optional field (imageUrl?, error?) is <<>> when absent and *)
(* <<v>> when it holds v.                                                  *)
(***************************************************************************)
EXTENDS Integers, Sequences, FiniteSets, TLC

\* ------------------------------------------------------------------ bounds
MaxScenes == 2      \* analysis returns 0..MaxScenes scenes
MaxParts == 1       \* parts in one image-model response
NumRatios == 2      \* how many of the five aspect-ratio buttons are pressed
MaxSheet == 2       \* characters of a sheet given to the resolver alone
MaxPresent == 2     \* presentCharacters entries given to the resolver alone

\* ------------------------------------------------------- strings and values
NoStatus == "undefined"
Absent == <<>>
Some(v) == <<v>>

Statuses == {"pending", "generating", "completed", "error"}

IsWhite(c) == c \in {" ", "\n"}

RECURSIVE TrimStart(_)
TrimStart(s) ==
  IF s = <<>> THEN <<>>
  ELSE IF IsWhite(Head(s)) THEN TrimStart(Tail(s)) ELSE s

RECURSIVE TrimEnd(_)
TrimEnd(s) ==
  IF s = <<>> THEN <<>>
  ELSE IF IsWhite(s[Len(s)]) THEN TrimEnd(SubSeq(s, 1, Len(s) - 1)) ELSE s

Trim(s) == TrimEnd(TrimStart(s))

LowerChar(c) ==
  CASE c = "A" -> "a"
    [] c = "B" -> "b"
    [] c = "N" -> "n"
    [] c = "O" -> "o"
    [] OTHER -> c

toLowerCase(s) == [k \in 1..Len(s) |-> LowerChar(s[k])]

\* String.prototype.includes: needle occurs as a contiguous substring
includes(hay, needle) ==
  \E k \in 0..(Len(hay) - Len(needle)) :
     SubSeq(hay, k + 1, k + Len(needle)) = needle

RECURSIVE Join(_, _)
Join(strs, sep) ==
  IF strs = <<>> THEN <<>>
  ELSE IF Len(strs) = 1 THEN strs[1]
  ELSE strs[1] \o sep \o Join(Tail(strs), sep)

\* ------------------------------------------------------------- the inputs
aspectRatios == <<"16:9", "9:16", "1:1", "4:3", "3:4">>
RatioValues == { aspectRatios[k] : k \in 1..NumRatios }

InputTexts == { <<>>, <<" ">>, <<"t">> }

Ann == [name |-> <<"A", "n", "n">>, description |-> "tall"]
Bo == [name |-> <<"B", "o">>, description |-> "short"]
CharacterSheets == { <<Ann, Bo>> }
PresentOptions == { <<>>, << <<"a", "n">> >> }
SuppliedStatuses == { NoStatus, "completed" }

\* What the analysis says of one scene: who is present and, outside the
\* schema, a status.  The code never relates the two (line 46 overwrites the
\* status, line 63 reads the names), so they are varied together.
SceneInputs ==
  { x \in PresentOptions \X SuppliedStatuses :
      (x[1] = <<>>) <=> (x[2] = NoStatus) }

RawScene(k, present, st) ==
  [ id |-> "s" \o ToString(k),
    originalText |-> "text" \o ToString(k),
    refinedPrompt |-> "prompt" \o ToString(k),
    presentCharacters |-> present,
    status |-> st,
    imageUrl |-> Absent,
    error |-> Absent ]

SceneLists ==
  UNION { { [k \in 1..n |-> RawScene(k, f[k][1], f[k][2])] :
              f \in [1..n -> SceneInputs] } :
          n \in 0..MaxScenes }

AnalysisResults ==
  { [kind |-> "analysis", characters |-> cs, visualStyle |-> "cinematic",
     scenes |-> ss] : cs \in CharacterSheets, ss \in SceneLists }

Null == [kind |-> "null"]
EmptyObject == [kind |-> "object"]

\* --------------------------------------------- Character Context Resolver
\* mutant: only a sheet name contained in a scene name counts
CharacterMatchesOneWay(c, presentCharacters) ==
  \E k \in 1..Len(presentCharacters) :
     includes(toLowerCase(presentCharacters[k]), toLowerCase(c.name))

\* App.tsx line 63: the filter predicate of sceneCharacterContext
CharacterMatches(c, presentCharacters) ==
  \E k \in 1..Len(presentCharacters) :
     \/ includes(toLowerCase(presentCharacters[k]), toLowerCase(c.name))
     \/ includes(toLowerCase(c.name), toLowerCase(presentCharacters[k]))

\* App.tsx line 64: `${c.name} (${c.description})`
RenderCharacter(c) == c.name \o <<" (", c.description, ")">>

RECURSIVE MatchedCharacters(_, _)
MatchedCharacters(characters, presentCharacters) ==
  IF characters = <<>> THEN <<>>
  ELSE IF CharacterMatches(Head(characters), presentCharacters)
       THEN <<RenderCharacter(Head(characters))>>
              \o MatchedCharacters(Tail(characters), presentCharacters)
       ELSE MatchedCharacters(Tail(characters), presentCharacters)

sceneCharacterContext(characters, presentCharacters) ==
  Join(MatchedCharacters(characters, presentCharacters), <<"; ">>)

NoSpecificCharacter == <<"No specific character">>

\* App.tsx line 69: sceneCharacterContext || "No specific character"
ContextArgument(ctx) == IF ctx = <<>> THEN NoSpecificCharacter ELSE ctx

\* ------------------------------------------------- geminiService.ts
\* What ai.models.generateContent can do for the image model: reject, or
\* resolve to a response whose first candidate holds 0..MaxParts parts, each
\* a text part or an inlineData part carrying base64 data.
ImageData == { <<"Q">>, <<"R">> }
TextPart == [inlineData |-> Absent]
InlinePart(d) == [inlineData |-> Some(d)]
PartValues == {TextPart} \cup { InlinePart(d) : d \in ImageData }
ImageResponses ==
  { [kind |-> "reject", parts |-> <<>>] } \cup
  { [kind |-> "response", parts |-> p] :
      p \in UNION { [1..n -> PartValues] : n \in 0..MaxParts } }

DataUrlPrefix == <<"data:image/png;base64", ",">>

RECURSIVE FirstInlineData(_)
FirstInlineData(parts) ==
  IF parts = <<>> THEN Absent
  ELSE IF Head(parts).inlineData # Absent THEN Head(parts).inlineData
  ELSE FirstInlineData(Tail(parts))

\* generateImage, lines 70-88: the awaited call may reject; otherwise the
\* first part with inlineData is returned as a data URL, and a response
\* without one throws "No image data received from API".
generateImage(resp) ==
  IF resp.kind = "reject" THEN [kind |-> "throw", cause |-> "api"]
  ELSE IF FirstInlineData(resp.parts) = Absent
       THEN [kind |-> "throw", cause |-> "nodata"]
       ELSE [kind |-> "return",
             value |-> DataUrlPrefix \o FirstInlineData(resp.parts)[1]]

\* What analyzeScript can do, lines 8-59: the awaited call rejects or
\* JSON.parse throws ("reject"); response.text is empty, so '{}' is parsed
\* ("empty"); or the schema-constrained JSON is parsed ("json").
AnalysisResponses ==
  { [kind |-> "reject", value |-> Null], [kind |-> "empty", value |-> Null] }
  \cup { [kind |-> "json", value |-> a] : a \in AnalysisResults }

analyzeScript(resp) ==
  IF resp.kind = "reject" THEN [kind |-> "throw", value |-> Null]
  ELSE IF resp.kind = "empty" THEN [kind |-> "return", value |-> EmptyObject]
  ELSE [kind |-> "return", value |-> resp.value]

\* ------------------------------------------------------ Artifact Bundler
\* a JavaScript string used as a condition: present and not ''
Truthy(opt) == opt # Absent /\ opt[1] # <<>>

\* mutant: every settled scene is taken, a failed one too
IsBundledTerminal(s) == s.status \in {"completed", "error"}

\* line 113: s.imageUrl && s.status === 'completed'
IsBundled(s) == Truthy(s.imageUrl) /\ s.status = "completed"

\* mutant: the list is not filtered, so the loop index is the scene's place
\* in the result list
completedScenesUnfiltered(scenes) == scenes

\* line 113: results.scenes.filter(...)
completedScenes(scenes) == SelectSeq(scenes, IsBundled)

\* String.prototype.split on a one-character separator
RECURSIVE Split(_, _)
Split(s, sep) ==
  IF \A k \in 1..Len(s) : s[k] # sep THEN <<s>>
  ELSE LET p == CHOOSE k \in 1..Len(s) :
                  s[k] = sep /\ \A m \in 1..(k - 1) : s[m] # sep
       IN <<SubSeq(s, 1, p - 1)>> \o Split(SubSeq(s, p + 1, Len(s)), sep)

\* line 122: scene.imageUrl.split(',')[1]
Base64Data(imageUrl) ==
  LET pieces == Split(imageUrl, ",")
  IN IF Len(pieces) >= 2 THEN pieces[2] ELSE <<>>

\* the value of a base64 digit (JSZip, { base64: true })
Base64Digit(c) ==
  CASE c = "Q" -> 16
    [] c = "R" -> 17
    [] OTHER -> 0

\* line 123, { base64: true }: the entry holds the decoded payload
DecodeBase64(data) == [k \in 1..Len(data) |-> Base64Digit(data[k])]

\* line 123: `scene-${i + 1}.png`, i the 0-based index in completedScenes
EntryName(k) == "scene-" \o ToString(k + 1) \o ".png"

\* JSZip.file(name, data): a new entry is appended, an entry of that name is
\* replaced where it stands
ZipFile(zip, name, data) ==
  IF \E k \in 1..Len(zip) : zip[k].name = name
  THEN [k \in 1..Len(zip) |->
          IF zip[k].name = name THEN [name |-> name, data |-> data]
          ELSE zip[k]]
  ELSE Append(zip, [name |-> name, data |-> data])

\* lines 119-125: the loop over completedScenes from index k on
RECURSIVE ZipLoop(_, _, _)
ZipLoop(zip, completed, k) ==
  IF ~(k < Len(completed)) THEN zip
  ELSE ZipLoop(IF Truthy(completed[k + 1].imageUrl)
               THEN ZipFile(zip, EntryName(k),
                            DecodeBase64(Base64Data(
                                completed[k + 1].imageUrl[1])))
               ELSE zip,
               completed, k + 1)

\* ------------------------------------------------------------- the state
VARIABLES
  inputText,     \* useState, line 7
  aspectRatio,   \* useState, line 8
  isAnalyzing,   \* useState, line 9
  isGenerating,  \* useState, line 10
  results,       \* useState, line 12: Null, or the held AnalysisResult
  progress,      \* useState, line 13
  crashed,       \* the component threw while rendering `results`
  pc,            \* where processBulk is: "idle", "analyze", "generate"
  analysis,      \* processBulk's local `analysis` (line 41)
  i,             \* processBulk's loop index (line 50), 0-based as in the code
  runAspect,     \* the `aspectRatio` the running processBulk closed over
  invoked,       \* history: the generateImage invocations of this run
  inFlight,      \* history: scene indices whose generateImage has not settled
  outcome,       \* history: per scene, how its generateImage call settled
  alerts,        \* history: alert() calls made by this run
  isZipping,     \* useState, line 11
  zipPc,         \* where downloadAllAsZip is: "idle" or "encode" (line 127)
  zip,           \* the JSZip object of the pending downloadAllAsZip
  zipStale,      \* history: the scene list changed since `zip` was filled
  archive,       \* history: the archive last downloaded, kept for as long
                 \* as the scene list it was made from is held unchanged
  zipReport,     \* history: how the last bundle request on the scene list
                 \* now held ended, and the alert() calls it made
  downloaded     \* history: the blob handed to link.click() (lines 127-130)
                 \* by the last request, until the scene list changes or
                 \* a new request is made

vars ==
  << inputText, aspectRatio, isAnalyzing, isGenerating, results, progress,
     crashed, pc, analysis, i, runAspect, invoked, inFlight, outcome, alerts,
     isZipping, zipPc, zip, zipStale, archive, zipReport, downloaded >>

bundleVars ==
  << isZipping, zipPc, zip, zipStale, archive, zipReport, downloaded >>

runVars ==
  << isAnalyzing, isGenerating, progress, crashed, pc, analysis, i,
     runAspect, invoked, inFlight, outcome, alerts >>

FailureMessage == "Failed to generate image"

\* r?.scenes for a value of `results`
ScenesOf(r) == IF r.kind = "analysis" THEN r.scenes ELSE <<>>

\* results?.scenes as the renderer reads it (line 287): the held scene list
HeldScenes == ScenesOf(results)

\* line 139: results?.scenes.some(s => s.imageUrl && s.status === 'completed')
hasAnyCompleted == \E k \in DOMAIN HeldScenes : IsBundled(HeldScenes[k])

\* mutant: the defensive normalisation is left out
NormalizeScenesKeepsStatus(scenes) == scenes

\* line 46: [...analysis.scenes].map(s => ({ ...s, status: 'pending' }))
NormalizeScenes(scenes) ==
  [k \in 1..Len(scenes) |-> [scenes[k] EXCEPT !.status = "pending"]]

\* mutant: only the scene list is held, the character sheet is dropped
HoldAnalysisScenesOnly(a) ==
  IF a = Null THEN Null
  ELSE [a EXCEPT !.scenes = NormalizeScenes(a.scenes), !.characters = <<>>]

\* lines 42 and 47 applied in order: prev ? { ...prev, scenes } : null
HoldAnalysis(a) ==
  IF a = Null THEN Null ELSE [a EXCEPT !.scenes = NormalizeScenes(a.scenes)]

\* lines 53-58 (scene k is 0-based, as the code's i)
SetGenerating(prev, k) ==
  IF prev = Null THEN Null
  ELSE [prev EXCEPT !.scenes[k + 1].status = "generating"]

\* mutant: the success branch stores the payload but not the status
SetCompletedKeepsStatus(prev, k, imageUrl) ==
  IF prev = Null THEN Null
  ELSE [prev EXCEPT !.scenes[k + 1].imageUrl = Some(imageUrl)]

\* mutant: the success branch forgets to store the payload
SetCompletedWithoutUrl(prev, k, imageUrl) ==
  IF prev = Null THEN Null
  ELSE [prev EXCEPT !.scenes[k + 1].status = "completed"]

\* lines 74-80
SetCompleted(prev, k, imageUrl) ==
  IF prev = Null THEN Null
  ELSE [prev EXCEPT !.scenes[k + 1].status = "completed",
                    !.scenes[k + 1].imageUrl = Some(imageUrl)]

\* mutant: the catch branch records the message but not the status
SetErrorMessageOnly(prev, k) ==
  IF prev = Null THEN Null
  ELSE [prev EXCEPT !.scenes[k + 1].error = Some(FailureMessage)]

\* lines 82-88
SetError(prev, k) ==
  IF prev = Null THEN Null
  ELSE [prev EXCEPT !.scenes[k + 1].status = "error",
                    !.scenes[k + 1].error = Some(FailureMessage)]

\* mutant: off-by-one loop bound
LoopConditionShort(k, n) == k < n - 1

\* line 50: i < updatedScenes.length
LoopCondition(k, n) == k < n

\* mutant: a failed scene ends the loop
NextIndexBreakOnFailure(k, settled) ==
  IF settled.kind = "throw" THEN MaxScenes + 1 ELSE k + 1

\* mutant: a failed scene is tried again
NextIndexRetryOnFailure(k, settled) ==
  IF settled.kind = "throw" THEN k ELSE k + 1

\* line 50: i++, reached after the try/catch of lines 60-89 whatever settled
NextIndex(k, settled) == k + 1

\* mutant: progress lags one scene behind
AdvanceProgressLate(p, k) == [p EXCEPT !.current = k]

\* line 91: setProgress(p => ({ ...p, current: i + 1 }))
AdvanceProgress(p, k) == [p EXCEPT !.current = k + 1]

\* mutant: the counter starts at one
InitialProgressFromOne(scenes) == [current |-> 1, total |-> Len(scenes)]

\* line 48
InitialProgress(scenes) == [current |-> 0, total |-> Len(scenes)]

\* mutant: the argument is read from the live state
AspectArgumentLive(captured, current) == current

\* line 71: the aspectRatio argument is the closure's constant, not the
\* state as it is when the call is made
AspectArgument(captured, current) == captured

\* mutant: the call is not awaited
AwaitedNot(flight, k) == flight

\* line 67: `await` - the loop resumes only once call k has settled
Awaited(flight, k) == flight \ {k}

\* lines 67-72: the arguments of generateImage for scene k
CallArguments(a, scene, k, ratio) ==
  [ scene |-> k,
    prompt |-> scene.refinedPrompt,
    characterContext |->
      ContextArgument(sceneCharacterContext(a.characters,
                                            scene.presentCharacters)),
    globalStyle |-> a.visualStyle,
    aspectRatio |-> ratio ]

\* mutant: the button looks at the text only
ButtonDisabledTextOnly == Trim(inputText) = <<>>

\* line 208: disabled={isAnalyzing || isGenerating || !inputText.trim()}
ButtonDisabled == isAnalyzing \/ isGenerating \/ Trim(inputText) = <<>>

TypeOK ==
  /\ inputText \in InputTexts
  /\ aspectRatio \in RatioValues
  /\ isAnalyzing \in BOOLEAN /\ isGenerating \in BOOLEAN
  /\ crashed \in BOOLEAN
  /\ pc \in {"idle", "analyze", "generate"}
  /\ progress.current \in 0..MaxScenes /\ progress.total \in 0..MaxScenes
  /\ i \in 0..MaxScenes
  /\ isZipping \in BOOLEAN /\ zipStale \in BOOLEAN
  /\ zipPc \in {"idle", "encode"}
  /\ Len(zip) <= MaxScenes
  /\ zipReport.outcome \in {"none", "encoding", "nothing", "archive", "failed"}
  /\ Len(downloaded) <= 1

Init ==
  /\ inputText = <<>>
  /\ aspectRatio = "16:9"
  /\ isAnalyzing = FALSE
  /\ isGenerating = FALSE
  /\ results = Null
  /\ progress = [current |-> 0, total |-> 0]
  /\ crashed = FALSE
  /\ pc = "idle"
  /\ analysis = Null
  /\ i = 0
  /\ runAspect = "16:9"
  /\ invoked = <<>>
  /\ inFlight = {}
  /\ outcome = <<>>
  /\ alerts = 0
  /\ isZipping = FALSE
  /\ zipPc = "idle"
  /\ zip = <<>>
  /\ zipStale = FALSE
  /\ archive = Absent
  /\ zipReport = [outcome |-> "none", alerts |-> 0]
  /\ downloaded = Absent

\* line 180 (textarea) and line 30 (file upload)
setInputText ==
  /\ ~crashed
  /\ \E t \in InputTexts : inputText' = t
  /\ UNCHANGED << aspectRatio, isAnalyzing, isGenerating, results, progress,
                  crashed, pc, analysis, i, runAspect, invoked, inFlight,
                  outcome, alerts, isZipping, zipPc, zip, zipStale,
                  archive, zipReport, downloaded >>

\* line 192: the aspect-ratio buttons, never disabled
setAspectRatio ==
  /\ ~crashed
  /\ \E r \in RatioValues : aspectRatio' = r
  /\ UNCHANGED << inputText, isAnalyzing, isGenerating, results, progress,
                  crashed, pc, analysis, i, runAspect, invoked, inFlight,
                  outcome, alerts, isZipping, zipPc, zip, zipStale,
                  archive, zipReport, downloaded >>

\* lines 96-99: finally
Finally ==
  /\ isGenerating' = FALSE
  /\ isAnalyzing' = FALSE
  /\ pc' = "idle"

\* What a change of the held scene list means for the bundle histories; the
\* pending downloadAllAsZip itself is not touched by processBulk
BundleHistory ==
  /\ zipStale' = (zipPc = "encode" /\ (zipStale \/ ScenesOf(results') # HeldScenes))
  /\ archive' = IF ScenesOf(results') # HeldScenes THEN Absent ELSE archive
  /\ zipReport' = IF ScenesOf(results') # HeldScenes /\ zipPc = "idle"
                  THEN [outcome |-> "none", alerts |-> 0]
                  ELSE zipReport
  /\ downloaded' = IF ScenesOf(results') # HeldScenes THEN Absent
                    ELSE downloaded
  /\ UNCHANGED << isZipping, zipPc, zip >>

\* lines 50-72 from the top of the loop with index k, `res` and `prog` being
\* the state the updates queued so far produce: either the loop body runs up
\* to its await, or the loop and the function end.
LoopFrom(a, res, prog, k, flight) ==
  /\ i' = k
  /\ progress' = prog
  /\ IF LoopCondition(k, Len(res.scenes))
     THEN /\ results' = SetGenerating(res, k)
          /\ invoked' = Append(invoked,
                 CallArguments(a, res.scenes[k + 1], k,
                               AspectArgument(runAspect, aspectRatio)))
          /\ inFlight' = flight \cup {k}
          /\ pc' = "generate"
          /\ isAnalyzing' = FALSE
          /\ isGenerating' = TRUE
     ELSE /\ results' = res
          /\ invoked' = invoked
          /\ inFlight' = flight
          /\ Finally
  /\ BundleHistory

\* lines 36-41: the click on "Generate Bulk Images" up to the first await
processBulk ==
  /\ ~crashed
  /\ ~ButtonDisabled
  /\ IF Trim(inputText) = <<>>
     THEN UNCHANGED vars
     ELSE /\ isAnalyzing' = TRUE
          /\ pc' = "analyze"
          /\ runAspect' = aspectRatio
          /\ analysis' = Null
          /\ i' = 0
          /\ invoked' = <<>>
          /\ inFlight' = {}
          /\ outcome' = <<>>
          /\ alerts' = 0
          /\ UNCHANGED << inputText, aspectRatio, isGenerating, results,
                          progress, crashed >>
          /\ UNCHANGED bundleVars

\* lines 93-99: the outer catch, then finally
CatchAndFinally ==
  /\ alerts' = alerts + 1
  /\ Finally

\* lines 41-72 and 93-99: analyzeScript settles
AnalysisSettles ==
  /\ pc = "analyze"
  /\ \E resp \in AnalysisResponses :
       LET r == analyzeScript(resp) IN
       IF r.kind = "throw"
       THEN /\ CatchAndFinally
            /\ UNCHANGED << inputText, aspectRatio, results, progress,
                            crashed, analysis, i, runAspect, invoked,
                            inFlight, outcome >>
            /\ UNCHANGED bundleVars
       ELSE IF r.value = EmptyObject
       THEN \* line 42 stores {}; line 46 spreads undefined and throws;
            \* lines 139 and 235 then throw while rendering {}
            /\ analysis' = r.value
            /\ results' = r.value
            /\ crashed' = TRUE
            /\ CatchAndFinally
            /\ BundleHistory
            /\ UNCHANGED << inputText, aspectRatio, progress, i, runAspect,
                            invoked, inFlight, outcome >>
       ELSE /\ analysis' = r.value
            /\ outcome' = [k \in 1..Len(r.value.scenes) |-> "none"]
            /\ LoopFrom(r.value, HoldAnalysis(r.value),
                        InitialProgress(NormalizeScenes(r.value.scenes)),
                        0, inFlight)
            /\ UNCHANGED << inputText, aspectRatio, crashed, runAspect,
                            alerts >>

\* lines 67-92 and 50-72: generateImage for scene i settles
GenerateSettles ==
  /\ pc = "generate"
  /\ \E resp \in ImageResponses :
       LET r == generateImage(resp) IN
       /\ outcome' = [outcome EXCEPT ![i + 1] =
                        IF r.kind = "return" THEN "image" ELSE r.cause]
       /\ LoopFrom(analysis,
                   IF r.kind = "return"
                   THEN SetCompleted(results, i, r.value)
                   ELSE SetError(results, i),
                   AdvanceProgress(progress, i),
                   NextIndex(i, r),
                   Awaited(inFlight, i))
       /\ UNCHANGED << inputText, aspectRatio, crashed, analysis, runAspect,
                       alerts >>

\* mutant: the archive is filled from the scene list as it is held when the
\* encoding is done
generateAsyncLive(z, rejects) ==
  IF rejects THEN [kind |-> "throw", value |-> <<>>]
  ELSE [kind |-> "return",
        value |-> ZipLoop(<<>>, completedScenes(HeldScenes), 0)]

\* JSZip.generateAsync({ type: "blob" }): rejects, or resolves to the
\* archive of the entries in the order they were added
generateAsync(z, rejects) ==
  IF rejects THEN [kind |-> "throw", value |-> <<>>]
  ELSE [kind |-> "return", value |-> z]

\* mutant: bundling consumes the first scene it bundles
resultsAfterDownloadConsumed(prev) ==
  IF \E k \in DOMAIN prev.scenes : IsBundled(prev.scenes[k])
  THEN LET first == CHOOSE k \in DOMAIN prev.scenes :
                      /\ IsBundled(prev.scenes[k])
                      /\ \A m \in 1..(k - 1) : ~IsBundled(prev.scenes[m])
       IN [prev EXCEPT !.scenes[first].status = "error",
                       !.scenes[first].imageUrl = Absent,
                       !.scenes[first].error = Some(FailureMessage)]
  ELSE prev

\* mutant: the scene list is reversed in place while it is bundled
resultsAfterDownloadReversed(prev) ==
  [prev EXCEPT !.scenes = [k \in 1..Len(prev.scenes) |->
                             prev.scenes[Len(prev.scenes) + 1 - k]]]

\* lines 109-137: downloadAllAsZip reads `results` and never calls
\* setResults, and the filter, split and zip.file calls copy what they read
resultsAfterDownload(prev) == prev

\* lines 109-127: downloadAllAsZip up to its await
downloadAllAsZip ==
  IF results = Null
  THEN UNCHANGED vars
  ELSE LET completed == completedScenes(results.scenes) IN
       /\ results' = resultsAfterDownload(results)
       /\ IF Len(completed) = 0
          THEN /\ zipReport' = [outcome |-> "nothing", alerts |-> 1]
               /\ isZipping' = FALSE
               /\ zipPc' = "idle"
               /\ zip' = <<>>
          ELSE /\ zipReport' = [outcome |-> "encoding", alerts |-> 0]
               /\ isZipping' = TRUE
               /\ zipPc' = "encode"
               /\ zip' = ZipLoop(<<>>, completed, 0)
       /\ zipStale' = FALSE
       /\ downloaded' = Absent
       /\ UNCHANGED archive
       /\ UNCHANGED inputText
       /\ UNCHANGED aspectRatio
       /\ UNCHANGED runVars

\* lines 262-263 and 360-361: the two bundle buttons, rendered while
\* hasAnyCompleted and disabled while isZipping
DownloadButton ==
  /\ ~crashed
  /\ hasAnyCompleted
  /\ ~isZipping
  /\ downloadAllAsZip

\* lines 127-136: generateAsync settles
ZipSettles ==
  /\ zipPc = "encode"
  /\ \E rejects \in BOOLEAN :
       LET r == generateAsync(zip, rejects) IN
       IF r.kind = "return"
       THEN /\ archive' = IF zipStale THEN Absent ELSE Some(r.value)
            /\ downloaded' = Some(r.value)
            /\ zipReport' = [outcome |-> "archive", alerts |-> 0]
       ELSE \* line 133: console.error only
            /\ archive' = archive
            /\ downloaded' = Absent
            /\ zipReport' = [outcome |-> "failed", alerts |-> zipReport.alerts]
  /\ isZipping' = FALSE
  /\ zipPc' = "idle"
  /\ zip' = <<>>
  /\ zipStale' = FALSE
  /\ UNCHANGED inputText
  /\ UNCHANGED aspectRatio
  /\ UNCHANGED results
  /\ UNCHANGED runVars

Next ==
  \/ setInputText
  \/ setAspectRatio
  \/ processBulk
  \/ AnalysisSettles
  \/ GenerateSettles
  \/ DownloadButton
  \/ ZipSettles

Spec == Init /\ [][Next]_vars

\* ------------------------------------- the bundler on any held scene list
\* The scene lists `results` can hold while the user can act: scenes that
\* have settled, then at most one being generated, then pending ones.
SceneAt(k, present, st, data) ==
  [ RawScene(k, present, NoStatus) EXCEPT
      !.status = st,
      !.imageUrl = IF st = "completed" THEN Some(DataUrlPrefix \o data)
                   ELSE Absent,
      !.error = IF st = "error" THEN Some(FailureMessage) ELSE Absent ]

SceneShapes ==
  { <<st, d>> \in Statuses \X ImageData : st = "completed" \/ d = <<"Q">> }

HeldSceneLists ==
  UNION { { [k \in 1..n |-> SceneAt(k, f[k][1], f[k][2][1], f[k][2][2])] :
              f \in { g \in [1..n -> PresentOptions \X SceneShapes] :
                        \A k \in 1..n :
                          /\ g[k][2][1] = "pending" =>
                               k > 1 /\ g[k - 1][2][1] \in {"pending", "generating"}
                          /\ g[k][2][1] # "pending" =>
                               \A m \in 1..(k - 1) :
                                  g[m][2][1] \in {"completed", "error"} } } :
          n \in 0..MaxScenes }

BundleInputs ==
  {Null} \cup
  { [kind |-> "analysis", characters |-> cs, visualStyle |-> "cinematic",
     scenes |-> ss] : cs \in CharacterSheets, ss \in HeldSceneLists }

\* downloadAllAsZip called on one of these results, whatever the buttons show
BundleInit ==
  /\ inputText = <<>>
  /\ aspectRatio = "16:9"
  /\ isAnalyzing = FALSE
  /\ isGenerating = FALSE
  /\ results \in BundleInputs
  /\ progress = [current |-> 0, total |-> 0]
  /\ crashed = FALSE
  /\ pc = "idle"
  /\ analysis = Null
  /\ i = 0
  /\ runAspect = "16:9"
  /\ invoked = <<>>
  /\ inFlight = {}
  /\ outcome = <<>>
  /\ alerts = 0
  /\ isZipping = FALSE
  /\ zipPc = "idle"
  /\ zip = <<>>
  /\ zipStale = FALSE
  /\ archive = Absent
  /\ zipReport = [outcome |-> "none", alerts |-> 0]
  /\ downloaded = Absent

BundleRequest ==
  /\ zipPc = "idle"
  /\ downloadAllAsZip

BundleNext ==
  \/ BundleRequest
  \/ ZipSettles

BundleSpec == BundleInit /\ [][BundleNext]_vars

\* ------------------------------------- the resolver on its own inputs
\* Lines 61-72 applied to one scene of any analysis: a sheet of up to
\* MaxSheet characters and up to MaxPresent names, among them a name in
\* another case that contains a sheet name, a part of a sheet name, a name
\* of no character and the empty name.
ResolverNames == { <<"a", "n">>, <<"B", "O", "B">>, <<"x">>, <<>> }

ResolverSheets ==
  UNION { [1..n -> {Ann, Bo}] : n \in 0..MaxSheet }

ResolverPresent ==
  UNION { [1..n -> ResolverNames] : n \in 0..MaxPresent }

ResolverInputs ==
  { [kind |-> "analysis", characters |-> cs, visualStyle |-> "cinematic",
     scenes |-> << RawScene(1, present, NoStatus) >>] :
      cs \in ResolverSheets, present \in ResolverPresent }

ResolverInit ==
  /\ inputText = <<"t">>
  /\ aspectRatio = "16:9"
  /\ isAnalyzing = FALSE
  /\ isGenerating = TRUE
  /\ results = Null
  /\ progress = [current |-> 0, total |-> 1]
  /\ crashed = FALSE
  /\ pc = "generate"
  /\ analysis \in ResolverInputs
  /\ i = 0
  /\ runAspect = "16:9"
  /\ invoked = <<>>
  /\ inFlight = {}
  /\ outcome = <<>>
  /\ alerts = 0
  /\ isZipping = FALSE
  /\ zipPc = "idle"
  /\ zip = <<>>
  /\ zipStale = FALSE
  /\ archive = Absent
  /\ zipReport = [outcome |-> "none", alerts |-> 0]
  /\ downloaded = Absent

\* lines 61-72: the arguments of the generateImage call for scene i
ResolveScene ==
  /\ i < Len(analysis.scenes)
  /\ invoked' = Append(invoked,
                       CallArguments(analysis, analysis.scenes[i + 1], i,
                                     AspectArgument(runAspect, aspectRatio)))
  /\ i' = i + 1
  /\ UNCHANGED << inputText, aspectRatio, isAnalyzing, isGenerating, results,
                  progress, crashed, pc, analysis, runAspect, inFlight,
                  outcome, alerts >>
  /\ UNCHANGED bundleVars

ResolverNext == ResolveScene

ResolverSpec == ResolverInit /\ [][ResolverNext]_vars

\* ------------------------------------------------------------ properties
\* The scene loop of the current run has been entered (line 48 was reached)
LoopEntered == analysis.kind = "analysis"

\* The current run went through its scene loop and ended (lines 50-99)
RunFinished == LoopEntered /\ pc = "idle"

\* C1: during and after a run every scene's status is one of pending,
\* generating, completed, error; imageUrl is populated iff the status is
\* completed and error is populated iff the status is error.
C1_StatusFieldsInvariant ==
  \A k \in DOMAIN HeldScenes :
    /\ HeldScenes[k].status \in Statuses
    /\ (HeldScenes[k].imageUrl # Absent) <=> (HeldScenes[k].status = "completed")
    /\ (HeldScenes[k].error # Absent) <=> (HeldScenes[k].status = "error")

\* C1 witness: a run is in flight with one scene completed (holding a data
\* URL), and a later one being generated
C1_Witness ==
  /\ pc = "generate"
  /\ Len(HeldScenes) >= 2
  /\ HeldScenes[1].status = "completed"
  /\ HeldScenes[1].imageUrl = Some(DataUrlPrefix \o <<"Q">>)
  /\ HeldScenes[2].status = "generating"

\* C2: when a run whose analysis succeeded has ended, every scene of the
\* result is completed or error; none is left pending or generating.
C2_AllTerminalAtEnd ==
  RunFinished =>
    \A k \in DOMAIN HeldScenes : HeldScenes[k].status \in {"completed", "error"}

\* C2 witness: a run over MaxScenes scenes has ended
C2_Witness ==
  /\ RunFinished
  /\ Len(HeldScenes) = MaxScenes
  /\ HeldScenes[MaxScenes].status = "completed"

\* C3: in a run over n scenes generateImage is invoked exactly once for every
\* scene, whatever happened to the others, and the status a scene ends in is
\* decided by how its own call settled, not by the other scenes' calls.
C3_EverySceneAttemptedOnce ==
  RunFinished =>
    /\ Len(invoked) = Len(analysis.scenes)
    /\ \A k \in DOMAIN analysis.scenes :
         /\ Cardinality({ j \in DOMAIN invoked : invoked[j].scene = k - 1 }) = 1
         /\ HeldScenes[k].status =
              (IF outcome[k] = "image" THEN "completed" ELSE "error")

\* C3 witness: a run ended in which the first scene failed and a later scene
\* was still attempted and completed
C3_Witness ==
  /\ RunFinished
  /\ Len(HeldScenes) >= 2
  /\ outcome[1] = "api"
  /\ HeldScenes[1].status = "error"
  /\ HeldScenes[2].status = "completed"

\* C4: within a run a scene's status changes only pending -> generating,
\* generating -> completed or generating -> error, so a completed or error
\* scene keeps its status, and no scene is attempted a second time.
C4_LegalTransitions ==
  [][ /\ (LoopEntered /\ analysis' = analysis) =>
           \A k \in DOMAIN HeldScenes :
              \/ HeldScenes'[k].status = HeldScenes[k].status
              \/ << HeldScenes[k].status, HeldScenes'[k].status >> \in
                   { <<"pending", "generating">>,
                     <<"generating", "completed">>,
                     <<"generating", "error">> }
      /\ \A j, k \in DOMAIN invoked' :
           invoked'[j].scene = invoked'[k].scene => j = k ]_vars

\* C4 witness: the first scene has reached error and the run has moved on
C4_Witness ==
  /\ pc = "generate"
  /\ i = 1
  /\ HeldScenes[1].status = "error"
  /\ HeldScenes[2].status = "generating"

\* C5: generateImage calls are issued one at a time in scene-list order; the
\* call for the next scene is issued only after the previous one settled, so
\* two calls are never in flight.
C5_OneCallInFlight ==
  /\ Cardinality(inFlight) <= 1
  /\ inFlight = (IF pc = "generate" THEN {i} ELSE {})
  /\ \A j \in DOMAIN invoked :
       /\ invoked[j].scene = j - 1
       /\ j < Len(invoked) => outcome[j] # "none"

\* C5 witness: the second call is in flight after the first has settled
C5_Witness ==
  /\ pc = "generate"
  /\ Len(invoked) = 2
  /\ inFlight = {1}
  /\ outcome[1] # "none"

\* C6: a scene whose generateImage call failed - the API call rejected, or
\* the response carried no image data - ends in status error with the
\* generic failure message and no imageUrl, never in completed.
C6_FailureEndsInError ==
  \A k \in DOMAIN outcome :
    outcome[k] \in {"api", "nodata"} =>
      /\ HeldScenes[k].status = "error"
      /\ HeldScenes[k].error = Some(FailureMessage)
      /\ HeldScenes[k].imageUrl = Absent

\* C6 witness: a run ended with one scene failed by rejection and one failed
\* by a response without image data
C6_Witness ==
  /\ RunFinished
  /\ Len(HeldScenes) >= 2
  /\ outcome[1] = "nodata"
  /\ outcome[2] = "api"
  /\ HeldScenes[1].status = "error"

\* C7: when the analysis step fails the run is aborted before any scene work:
\* no generateImage call is issued, the held result stays as it was before
\* the run, and the caller is alerted exactly once.
C7_AnalysisFailureLeavesResults ==
  [][ (pc = "analyze" /\ pc' = "idle" /\ analysis'.kind # "analysis") =>
        /\ results' = results
        /\ invoked' = <<>>
        /\ alerts' = 1 ]_vars

\* C8: the progress counter enters the scene loop as current = 0 with total
\* the number of scenes; current is the number of scenes processed so far,
\* whether they succeeded or failed, and equals total exactly when the loop
\* has finished.
C8_ProgressCounts ==
  LoopEntered =>
    /\ progress.total = Len(analysis.scenes)
    /\ progress.current = Cardinality({ k \in DOMAIN outcome : outcome[k] # "none" })
    /\ pc = "generate" => progress.current = i
    /\ (progress.current = progress.total) <=> (pc = "idle")

\* C8 witness: one scene failed, one succeeded, the loop has finished
C8_Witness ==
  /\ RunFinished
  /\ progress = [current |-> 2, total |-> 2]
  /\ outcome[1] = "nodata"
  /\ outcome[2] = "image"

\* C9: when the analysis result is received every scene is set to pending
\* before the first generateImage call is issued, whatever status the
\* analysis supplied: as that call goes out the first scene has moved on from
\* pending to generating and every other scene is pending.
C9_PendingBeforeFirstCall ==
  (pc = "generate" /\ i = 0) =>
    HeldScenes =
      [k \in DOMAIN analysis.scenes |->
         [analysis.scenes[k] EXCEPT
            !.status = IF k = 1 THEN "generating" ELSE "pending"]]

\* C9 witness: the first call is in flight and the analysis had supplied a
\* status for one scene and none for another
C9_Witness ==
  /\ pc = "generate"
  /\ i = 0
  /\ Len(analysis.scenes) = 2
  /\ analysis.scenes[1].status = NoStatus
  /\ analysis.scenes[2].status = "completed"
  /\ HeldScenes[2].status = "pending"

\* C10: every generateImage call of a run receives the same aspect ratio,
\* the one selected when the run was started, even if another one is
\* selected while the run is in flight.
C10_AspectRatioFixedPerRun ==
  \A j \in DOMAIN invoked : invoked[j].aspectRatio = runAspect

\* C10 witness: the second call went out after the user selected another
\* aspect ratio
C10_Witness ==
  /\ Len(invoked) = 2
  /\ aspectRatio # runAspect
  /\ invoked[2].aspectRatio = invoked[1].aspectRatio

\* The archive entries `z` are the bundle of `scenes`: one entry for each
\* scene that is completed with a non-empty imageUrl, in scene order, the
\* j-th of them named scene-j.png and holding that scene's decoded payload
\* (base64 digit Q is 16, R is 17).
IsBundleOf(z, scenes) ==
  LET ok == { k \in DOMAIN scenes :
                /\ scenes[k].status = "completed"
                /\ scenes[k].imageUrl # Absent
                /\ scenes[k].imageUrl[1] # <<>> }
      bytes(url) == [n \in 1..(Len(url) - Len(DataUrlPrefix)) |->
                       IF url[n + Len(DataUrlPrefix)] = "Q" THEN 16 ELSE 17]
  IN /\ Len(z) = Cardinality(ok)
     /\ \A j \in DOMAIN z :
          /\ z[j].name = "scene-" \o ToString(j) \o ".png"
          /\ \E k \in ok :
               /\ Cardinality({ m \in ok : m <= k }) = j
               /\ z[j].data = bytes(scenes[k].imageUrl[1])

\* C11: the bundle holds exactly one entry for each scene that is completed
\* with a non-empty imageUrl, in scene-list order, named scene-1 .. scene-k;
\* the numbering is dense over those scenes and never the original index of
\* a scene that follows a failed one.
C11_BundleIsDenseOverCompleted ==
  /\ (zipPc = "encode" /\ ~zipStale) => IsBundleOf(zip, HeldScenes)
  /\ archive # Absent => IsBundleOf(archive[1], HeldScenes)

\* C11 witness: an archive was downloaded from a list whose first scene
\* failed and whose second scene completed; its only entry is scene-1.png
C11_Witness ==
  /\ archive # Absent
  /\ Len(HeldScenes) = 2
  /\ HeldScenes[1].status = "error"
  /\ HeldScenes[2].status = "completed"
  /\ Len(archive[1]) = 1
  /\ archive[1][1].name = "scene-1.png"

C13_EncodingFailureAlerts ==
  zipReport.outcome = "failed" => zipReport.alerts = 1

\* C14: a bundle request, whatever its outcome, leaves the held result and
\* the progress counter as they were.
C14_BundleLeavesResults ==
  [][ (zipPc' # zipPc \/ isZipping' # isZipping
         \/ (zipReport'.outcome \in {"nothing", "archive", "failed"}
               /\ zipReport' # zipReport)) =>
        /\ results' = results
        /\ progress' = progress ]_vars

\* C14 witness: a request failed in encoding while scenes were held
C14_Witness ==
  /\ zipReport.outcome = "failed"
  /\ zipPc = "idle"
  /\ Len(HeldScenes) = 2
  /\ HeldScenes[1].status = "completed"
  /\ HeldScenes[2].status = "completed"

OccursIgnoringCase(needle, hay) ==
  LET SameLetter(a, b) ==
        \/ a = b
        \/ {a, b} \in { {"A", "a"}, {"B", "b"}, {"N", "n"}, {"O", "o"} }
  IN \E off \in 0..(Len(hay) - Len(needle)) :
        \A j \in 1..Len(needle) : SameLetter(hay[off + j], needle[j])

\* where the k-th of the pieces starts when they are joined by a separator
\* of one element
RECURSIVE PieceStart(_, _)
PieceStart(pieces, k) ==
  IF k = 1 THEN 1
  ELSE PieceStart(pieces, k - 1) + Len(pieces[k - 1]) + 1

\* ctx is the character context of a scene with names `present` under the
\* sheet `sheet`
IsContextOf(ctx, sheet, present) ==
  LET Matches(c) ==
        \E k \in DOMAIN present :
           \/ OccursIgnoringCase(c.name, present[k])
           \/ OccursIgnoringCase(present[k], c.name)
      chosen == SelectSeq(sheet, Matches)
      n == Len(chosen)
      pieces == [k \in 1..n |->
                   chosen[k].name \o <<" (">> \o <<chosen[k].description>>
                     \o <<")">>]
  IN /\ ctx # <<>>
     /\ (ctx = <<"No specific character">>) <=> (n = 0)
     /\ n > 0 =>
          /\ Len(ctx) = PieceStart(pieces, n) + Len(pieces[n]) - 1
          /\ \A k \in 1..n :
               /\ SubSeq(ctx, PieceStart(pieces, k),
                         PieceStart(pieces, k) + Len(pieces[k]) - 1)
                    = pieces[k]
               /\ k > 1 => ctx[PieceStart(pieces, k) - 1] = "; "

\* C16: the character context passed to image generation holds exactly the
\* sheet characters whose name is, without regard to case, a substring of a
\* presentCharacters entry or has one as a substring, each rendered
\* "Name (description)", joined by "; " in sheet order; it is the sentinel
\* "No specific character" exactly when no character matches, and it is
\* never empty.
C16_CharacterContext ==
  \A c \in DOMAIN invoked :
     IsContextOf(invoked[c].characterContext, analysis.characters,
                 analysis.scenes[invoked[c].scene + 1].presentCharacters)

\* C16 witness: both characters of the sheet match, one because a name of
\* the scene is part of its name, one because its name is part of a name of
\* the scene in another case
C16_Witness ==
  /\ Len(invoked) = 1
  /\ analysis.scenes[1].presentCharacters = << <<"a", "n">>, <<"B", "O", "B">> >>
  /\ invoked[1].characterContext =
       <<"A", "n", "n", " (", "tall", ")", "; ", "B", "o", " (", "short", ")">>

\* C17: from the moment a run is started until it ends isAnalyzing or
\* isGenerating is true wherever the caller can act, and no step starts a
\* run (enters the analysis call) while the scene loop of a run is going on.
C17_SingleRun ==
  [][ /\ pc # "idle" => (isAnalyzing \/ isGenerating)
      /\ pc' # "idle" => (isAnalyzing' \/ isGenerating')
      /\ pc = "generate" => pc' # "analyze"
      /\ (pc = "analyze" /\ pc' = "analyze") => runAspect' = runAspect ]_vars

\* C17 witness: a call for the second scene is pending while the text is
\* not empty, so only the busy flag keeps the button disabled
C17_Witness ==
  /\ pc = "generate"
  /\ i = 1
  /\ Trim(inputText) # <<>>
  /\ isGenerating
  /\ ~isAnalyzing

\* C18: after any run has ended both busy flags are false and, with
\* non-empty input, the caller can start a new run.
C18_CanAlwaysRetry ==
  (pc = "idle" /\ alerts + Len(invoked) > 0 /\ Trim(inputText) # <<>>) =>
     /\ ~isAnalyzing
     /\ ~isGenerating
     /\ ~crashed

\* C19: while and after the scene loop runs, the held result has the
\* character sheet, the visualStyle, the number and order of scenes and each
\* scene's id, originalText, refinedPrompt and presentCharacters of the
\* analysis.
C19_OnlyMutableFieldsChange ==
  LoopEntered =>
    /\ results.kind = "analysis"
    /\ results.characters = analysis.characters
    /\ results.visualStyle = analysis.visualStyle
    /\ Len(results.scenes) = Len(analysis.scenes)
    /\ \A k \in DOMAIN analysis.scenes :
         /\ results.scenes[k].id = analysis.scenes[k].id
         /\ results.scenes[k].originalText = analysis.scenes[k].originalText
         /\ results.scenes[k].refinedPrompt = analysis.scenes[k].refinedPrompt
         /\ results.scenes[k].presentCharacters
              = analysis.scenes[k].presentCharacters

\* C19 witness: a run of two scenes has ended with an image and a failure
C19_Witness ==
  /\ RunFinished
  /\ Len(HeldScenes) = 2
  /\ HeldScenes[1].status = "completed"
  /\ HeldScenes[2].status = "error"
  /\ HeldScenes[1].presentCharacters # <<>>

\* C20: at every point of the scene loop there is a position k such that
\* the scenes before k are completed or error, the scenes after k are
\* pending, and only scene k may be generating; at most one scene is
\* generating.
C20_PrefixShape ==
  LoopEntered =>
    /\ \E k \in 1..(Len(HeldScenes) + 1) :
         /\ \A j \in 1..(k - 1) : HeldScenes[j].status \in {"completed", "error"}
         /\ \A j \in (k + 1)..Len(HeldScenes) : HeldScenes[j].status = "pending"
    /\ Cardinality({ j \in DOMAIN HeldScenes :
                       HeldScenes[j].status = "generating" }) <= 1

\* C20 witness: the first scene is settled and the second is being
\* generated
C20_Witness ==
  /\ pc = "generate"
  /\ Len(HeldScenes) = 2
  /\ HeldScenes[1].status = "completed"
  /\ HeldScenes[2].status = "generating"

\* C21: the entries of a bundle are those of the scene list as it is when
\* the request is made; while the encoding is pending no step, of a run
\* that goes on or of a new run, adds, removes or renames an entry, and the
\* archive handed over is made of exactly those entries.
C21_BundleFixedAtRequest ==
  [][ /\ (zipPc = "idle" /\ zipPc' = "encode") => IsBundleOf(zip', HeldScenes)
      /\ (zipPc = "encode" /\ zipPc' = "encode") => zip' = zip
      /\ (zipPc = "encode" /\ zipPc' = "idle"
            /\ zipReport'.outcome = "archive") => downloaded' = Some(zip) ]_vars

\* C21 witness: an archive of one entry was handed over after the run had
\* completed a second scene while the encoding was pending
C21_Witness ==
  /\ downloaded # Absent
  /\ Len(downloaded[1]) = 1
  /\ Len(HeldScenes) = 2
  /\ HeldScenes[1].status = "completed"
  /\ HeldScenes[2].status = "completed"
  /\ archive = Absent

\* C22: throughout the scene loop progress.current is at most the number of
\* scenes that are completed or error and at most progress.total, and
\* progress.total is the number of scenes of the held result.
C22_ProgressBounded ==
  LoopEntered =>
    /\ progress.current <=
         Cardinality({ k \in DOMAIN HeldScenes :
                         HeldScenes[k].status \in {"completed", "error"} })
    /\ progress.current <= progress.total
    /\ progress.total = Len(HeldScenes)

\* C22 witness: the first of two scenes has failed and the second is being
\* generated, with the counter at one of two
C22_Witness ==
  /\ pc = "generate"
  /\ progress = [current |-> 1, total |-> 2]
  /\ HeldScenes[1].status = "error"
  /\ HeldScenes[2].status = "generating"

====
